---- MODULE Spec2Model ----
(***************************************************************************)
(* Model of src/lru_cache.py: class Node and class LRUCache (hash map +    *)
(* doubly linked list with two sentinel nodes).                            *)
(*                                                                         *)
(* Objects live in `heap`, a function from object handles (positive        *)
(* integers) to Node records; prev/next hold handles or None.              *)
(* Every public call (the constructor, get, put) is one action that runs   *)
(* the whole method, statement by statement, on a machine state            *)
(* m = [heap, cache, exc]; a statement that raises sets m.exc and the      *)
(* remaining statements of the call are skipped, as in Python.             *)
(***************************************************************************)
EXTENDS Integers, Sequences, FiniteSets, TLC

(* ------------------------------ bounds -------------------------------- *)
\* keys passed to get/put are 0..MaxKey
MaxKey == 3
\* values passed to put are -1..MaxValue
MaxValue == 0
\* capacities passed to the constructor are -1..MaxCapacity
MaxCapacity == 3

Keys == 0..MaxKey
Values == (0 - 1)..MaxValue
Capacities == (0 - 1)..MaxCapacity

(* ----------------------------- constants ------------------------------ *)
\* Python's None: distinct from every key, value and object handle
None == -3
\* a miss that returns None
NotFound_None == None
\* the value get returns for an absent key
NotFound == -1

VARIABLES
    capacity,    \* self.capacity (None before construction)
    cache,       \* self.cache: dict key -> Node handle
    head,        \* self.head: handle of the dummy head node
    tail,        \* self.tail: handle of the dummy tail node
    heap,        \* the allocated Node objects: handle -> [key, value, prev, next]
    op,          \* the call that ran last: [name, path, key, value]; path is
                 \* the branch it took
    ret,         \* what it returned (None for put and the constructor)
    exc,         \* the exception it raised, "none" if it returned normally
    recency,     \* ghost: the keys of the dict, most recent touch first
    lastPut,     \* ghost: key of the dict -> value of its most recent put
    gone,        \* ghost: the keys that were deleted from the dict and have
                 \* not been put again since
    script,      \* ghost: how many calls of Script have run, in order, on the
                 \* new cache (None once the calls depart from Script)
    run,         \* ghost: the keys of the latest puts, oldest first, back to
                 \* the last get or the last put of the same key
    again        \* ghost: the last call was a put that repeated the put
                 \* before it, key and value

\* the history kept by SpecTests only
hist == <<script, run, again>>

vars == <<capacity, cache, head, tail, heap, op, ret, exc,
          recency, lastPut, gone, script, run, again>>

(* ------------------------------ class Node ---------------------------- *)
\* a Node built with its arguments swapped
Node_swapped(key, value) ==
    [key |-> value, value |-> key, prev |-> None, next |-> None]

Node(key, value) ==
    [key |-> key, value |-> value, prev |-> None, next |-> None]

\* The handle a newly constructed object gets. The program never looks at
\* the identity of a Node except to compare two of them, so any handle not
\* in use will do: the allocator tries `want` and falls back to the lowest
\* handle not in use.
Alloc(h, want) ==
    IF want \notin DOMAIN h THEN want
    ELSE CHOOSE n \in 1..(Cardinality(DOMAIN h) + 1) :
            /\ n \notin DOMAIN h
            /\ \A i \in 1..(n - 1) : i \in DOMAIN h

\* h with a new object obj at handle n
Store(h, n, obj) == [x \in DOMAIN h \cup {n} |-> IF x = n THEN obj ELSE h[x]]

(* ----------------------- statements of the methods -------------------- *)
Raise(m, e) == IF m.exc # "none" THEN m ELSE [m EXCEPT !.exc = e]

\* obj.field = val
SetAttr(m, obj, field, val) ==
    IF m.exc # "none" THEN m
    ELSE IF obj = None THEN Raise(m, "AttributeError")
    ELSE [m EXCEPT !.heap[obj][field] = val]

\* obj.field as an expression (None has no attributes: the statement that
\* evaluates it raises, see the callers)
GetAttr(m, obj, field) == IF obj = None THEN None ELSE m.heap[obj][field]

\* self.cache.get(key)
CacheGet(c, key) == IF key \in DOMAIN c THEN c[key] ELSE None

\* a put that forgets the del
DelItem_skipped(m, key) == m

\* self.cache[key] = node
SetItem(m, key, node) ==
    IF m.exc # "none" THEN m
    ELSE [m EXCEPT !.cache =
            [k \in DOMAIN m.cache \cup {key} |->
                IF k = key THEN node ELSE m.cache[k]]]

\* del self.cache[key]
DelItem(m, key) ==
    IF m.exc # "none" THEN m
    ELSE IF key \notin DOMAIN m.cache THEN Raise(m, "KeyError")
    ELSE [m EXCEPT !.cache = [k \in DOMAIN m.cache \ {key} |-> m.cache[k]]]

(* --------------------------- LRUCache helpers ------------------------- *)
\* an _add_node that links the node in at the tail end
_add_node_at_tail(m, node) ==
    LET m1 == SetAttr(m, node, "next", tail)
        m2 == SetAttr(m1, node, "prev", GetAttr(m1, tail, "prev"))
        m3 == SetAttr(m2, GetAttr(m2, tail, "prev"), "next", node)
    IN  SetAttr(m3, tail, "prev", node)

\* an _add_node that forgets node.prev = self.head
_add_node_no_prev(m, node) ==
    LET m2 == SetAttr(m, node, "next", GetAttr(m, head, "next"))
        m3 == SetAttr(m2, GetAttr(m2, head, "next"), "prev", node)
    IN  SetAttr(m3, head, "next", node)

\* an _add_node that forgets self.head.next.prev = node
_add_node_no_back_link(m, node) ==
    LET m1 == SetAttr(m, node, "prev", head)
        m2 == SetAttr(m1, node, "next", GetAttr(m1, head, "next"))
    IN  SetAttr(m2, head, "next", node)

_add_node(m, node) ==
    LET m1 == SetAttr(m, node, "prev", head)
        m2 == SetAttr(m1, node, "next", GetAttr(m1, head, "next"))
        m3 == SetAttr(m2, GetAttr(m2, head, "next"), "prev", node)
    IN  SetAttr(m3, head, "next", node)

\* a _remove_node that forgets next_node.prev = prev_node
_remove_node_one_link(m, node) ==
    IF node = None THEN Raise(m, "AttributeError")
    ELSE SetAttr(m, GetAttr(m, node, "prev"), "next",
                 GetAttr(m, node, "next"))

_remove_node(m, node) ==
    IF node = None THEN Raise(m, "AttributeError")
    ELSE LET prev_node == GetAttr(m, node, "prev")
             next_node == GetAttr(m, node, "next")
             m1 == SetAttr(m, prev_node, "next", next_node)
         IN  SetAttr(m1, next_node, "prev", prev_node)

\* a _move_to_head that leaves the node where it is
_move_to_head_skipped(m, node) == m

_move_to_head(m, node) == _add_node(_remove_node(m, node), node)

\* a _pop_tail that takes the node at the wrong end of the list
last_node_at_head(m) == GetAttr(m, head, "next")

\* the node _pop_tail returns
last_node(m) == GetAttr(m, tail, "prev")

_pop_tail(m) == _remove_node(m, last_node(m))

(* ------------------------- garbage collection ------------------------- *)
\* the handles reachable from the set `seen` through prev and next
RECURSIVE Reach(_, _)
Reach(h, seen) ==
    LET more == { h[n].prev : n \in seen } \cup { h[n].next : n \in seen }
        nxt == seen \cup ((more \ {None}) \cap DOMAIN h)
    IN  IF nxt = seen THEN seen ELSE Reach(h, nxt)

\* when a call returns its locals die, and CPython frees every Node no
\* longer reachable from the cache object
Collect(m) ==
    LET roots == ({head, tail} \cup { m.cache[k] : k \in DOMAIN m.cache })
                     \cap DOMAIN m.heap
        live == Reach(m.heap, roots)
    IN  [n \in live |-> m.heap[n]]

(* ------------------------------- ghosts ------------------------------- *)
\* The ghosts are a history of the calls, kept apart from the list and the
\* node values: which key was touched how recently, and which value each
\* key was last put with. They are kept for the keys of the dict only (a key
\* that leaves the dict is forgotten, and starts afresh when it is put
\* again).

\* key k has just been touched: it becomes the most recent one
Touch(r, k, live) ==
    SelectSeq(<<k>> \o SelectSeq(r, LAMBDA x : x # k), LAMBDA x : x \in live)

\* key k has just been put with value v
Record(f, k, v, live) ==
    [x \in (DOMAIN f \cup {k}) \cap live |-> IF x = k THEN v ELSE f[x]]

\* the keys deleted and not put again, after a call that went from dict
\* keys `before` to dict keys `after`
Gone(g, before, after) == (g \cup (before \ after)) \ after

(* ------------------------------- Init --------------------------------- *)
\* before the constructor has run there is no cache object
Init ==
    /\ capacity = None
    /\ cache = <<>>
    /\ head = None
    /\ tail = None
    /\ heap = <<>>
    /\ op = [name |-> "start", path |-> "none", key |-> None, value |-> None]
    /\ ret = None
    /\ exc = "none"
    /\ recency = <<>>
    /\ lastPut = <<>>
    /\ gone = {}
    /\ script = None
    /\ run = <<>>
    /\ again = FALSE

(* ------------------------------ actions ------------------------------- *)
\* a capacity check that lets 0 through
BadCapacity_lt(c) == c < 0

\* capacity <= 0
BadCapacity(c) == c <= 0

\* LRUCache(c); op.value records the argument
__init__(c) ==
    /\ op.name = "start"
    /\ op' = [name |-> "__init__",
              path |-> IF BadCapacity(c) THEN "raise" ELSE "ok",
              key |-> None, value |-> c]
    /\ ret' = None
    /\ UNCHANGED <<recency, lastPut, gone>>
    /\ IF BadCapacity(c)
       THEN /\ exc' = "ValueError"
            /\ UNCHANGED <<capacity, cache, head, tail, heap>>
       ELSE LET h == Alloc(<<>>, 1)
                h1 == Store(<<>>, h, Node(0, 0))
                t == Alloc(h1, 2)
                h2 == Store(h1, t, Node(0, 0))
            IN  /\ capacity' = c
                /\ cache' = <<>>
                /\ head' = h
                /\ tail' = t
                /\ heap' = [h2 EXCEPT ![h].next = t, ![t].prev = h]
                /\ exc' = "none"

\* self.get(key)
get(key) ==
    /\ capacity # None
    /\ LET node == CacheGet(cache, key)
           m0 == [heap |-> heap, cache |-> cache, exc |-> "none"]
       IN  IF node = None
           THEN /\ ret' = NotFound
                /\ exc' = "none"
                /\ op' = [name |-> "get", path |-> "miss", key |-> key,
                          value |-> None]
                /\ UNCHANGED <<cache, heap, recency>>
           ELSE LET m1 == _move_to_head(m0, node)
                IN  /\ ret' = IF m1.exc = "none" THEN m1.heap[node].value
                              ELSE None
                    /\ exc' = m1.exc
                    /\ op' = [name |-> "get", path |-> "hit", key |-> key,
                              value |-> None]
                    /\ cache' = m1.cache
                    /\ heap' = Collect(m1)
                    /\ recency' = Touch(recency, key, DOMAIN m1.cache)
    /\ UNCHANGED <<capacity, head, tail, lastPut, gone>>

\* a capacity test that is off by one: > for >=
IsFull_gt(c) == Cardinality(DOMAIN c) > capacity

\* a capacity test that evicts one entry too early
IsFull_early(c) == Cardinality(DOMAIN c) + 1 >= capacity

\* len(self.cache) >= self.capacity
IsFull(c) == Cardinality(DOMAIN c) >= capacity

\* a put that evicts instead of inserting when the cache is full (the
\* insertion in an else branch of the capacity test)
put_new_evict_or_insert(m, key, value) ==
    LET new_node == Alloc(m.heap, key + 3)
        m1 == [m EXCEPT !.heap = Store(m.heap, new_node, Node(key, value))]
        tail_node == last_node(m1)
    IN  IF IsFull(m1.cache)
        THEN IF tail_node = None THEN _pop_tail(m1)
             ELSE DelItem(_pop_tail(m1), m1.heap[tail_node].key)
        ELSE _add_node(SetItem(m1, key, new_node), new_node)

\* put, the branch `if not node`: the key is not in the dict
put_new(m, key, value) ==
    LET new_node == Alloc(m.heap, key + 3)
        m1 == [m EXCEPT !.heap = Store(m.heap, new_node, Node(key, value))]
        tail_node == last_node(m1)
        \* tail_node.key raises on None, the del on a key the dict lacks
        m2 == IF ~IsFull(m1.cache) THEN m1
              ELSE IF tail_node = None THEN _pop_tail(m1)
              ELSE DelItem(_pop_tail(m1), m1.heap[tail_node].key)
        m3 == SetItem(m2, key, new_node)
    IN  _add_node(m3, new_node)

\* a put of a present key that links the node in at the head again without
\* unlinking it first
put_existing_adds_again(m, node, value) ==
    _add_node(SetAttr(m, node, "value", value), node)

\* a put of a present key that forgets node.value = value
put_existing_keeps_value(m, node, value) == _move_to_head(m, node)

\* put, the branch `else`: the key is in the dict, at node
put_existing(m, node, value) ==
    _move_to_head(SetAttr(m, node, "value", value), node)

\* self.put(key, value)
put(key, value) ==
    /\ capacity # None
    /\ LET node == CacheGet(cache, key)
           m0 == [heap |-> heap, cache |-> cache, exc |-> "none"]
           m1 == IF node = None THEN put_new(m0, key, value)
                 ELSE put_existing(m0, node, value)
       IN  /\ exc' = m1.exc
           /\ cache' = m1.cache
           /\ heap' = Collect(m1)
           /\ op' = [name |-> "put",
                     path |-> IF node # None THEN "update"
                              ELSE IF IsFull(cache) THEN "evict"
                              ELSE "insert",
                     key |-> key, value |-> value]
    /\ ret' = None
    /\ recency' = Touch(recency, key, DOMAIN cache')
    /\ lastPut' = Record(lastPut, key, value, DOMAIN cache')
    /\ gone' = Gone(gone, DOMAIN cache, DOMAIN cache')
    /\ UNCHANGED <<capacity, head, tail>>

Next ==
    \/ \E c \in Capacities : __init__(c) /\ UNCHANGED hist
    \/ \E key \in Keys : get(key) /\ UNCHANGED hist
    \/ \E key \in Keys, value \in Values : put(key, value) /\ UNCHANGED hist

Spec == Init /\ [][Next]_vars

(* ----------------------- the calls of the test suite ------------------ *)
\* Test 1 (Basic Operations): the calls made on LRUCache(2)
ScriptCapacity == 2
Script ==
    << [name |-> "put", key |-> 1, value |-> 1],
       [name |-> "put", key |-> 2, value |-> 2],
       [name |-> "get", key |-> 1, value |-> None],
       [name |-> "put", key |-> 3, value |-> 3],
       [name |-> "get", key |-> 2, value |-> None],
       [name |-> "get", key |-> 3, value |-> None],
       [name |-> "get", key |-> 1, value |-> None] >>

\* the position in Script after `call`, made at position s
Advance(s, call) ==
    IF s # None /\ s < Len(Script) /\ Script[s + 1] = call THEN s + 1
    ELSE None

\* the latest puts of pairwise distinct keys, after a put of k
Extend(r, k) ==
    IF \A i \in 1..Len(r) : r[i] # k THEN Append(r, k)
    ELSE LET i == CHOOSE j \in 1..Len(r) : r[j] = k
         IN  Append(SubSeq(r, i + 1, Len(r)), k)

\* The test suite stores under each key a value fixed by the key (Test 1:
\* put(i, i)); SpecTests makes every call of Spec that way, and keeps the
\* history of the calls.
T_init(c) ==
    /\ __init__(c)
    /\ script' = IF c = ScriptCapacity THEN 0 ELSE None
    /\ run' = <<>>
    /\ again' = FALSE

T_get(key) ==
    /\ get(key)
    /\ script' = Advance(script, [name |-> "get", key |-> key, value |-> None])
    /\ run' = <<>>
    /\ again' = FALSE

T_put(key) ==
    /\ put(key, key)
    /\ script' = Advance(script, [name |-> "put", key |-> key, value |-> key])
    /\ run' = Extend(run, key)
    /\ again' = (op.name = "put" /\ op.key = key /\ op.value = key)

NextTests ==
    \/ \E c \in Capacities : T_init(c)
    \/ \E key \in Keys : T_get(key)
    \/ \E key \in Keys : T_put(key)

SpecTests == Init /\ [][NextTests]_vars

(* ------------------------------ observers ----------------------------- *)
\* len(self.cache)
size == Cardinality(DOMAIN cache)

\* the handles met from n along `field` up to (not including) `stop`, as
\* the loop of display_cache_state walks them; the walk ends with None if it
\* leaves the heap or has not met `stop` after `fuel` nodes
RECURSIVE Chain(_, _, _, _, _)
Chain(h, n, stop, field, fuel) ==
    IF n = stop THEN <<>>
    ELSE IF n \notin DOMAIN h \/ fuel = 0 THEN <<None>>
    ELSE <<n>> \o Chain(h, h[n][field], stop, field, fuel - 1)

\* the nodes of the list, most recent first
ListNodes ==
    IF capacity = None THEN <<>>
    ELSE Chain(heap, heap[head].next, tail, "next", Cardinality(DOMAIN heap))

\* their keys
Items ==
    [i \in 1..Len(ListNodes) |->
        IF ListNodes[i] = None THEN None ELSE heap[ListNodes[i]].key]

\* the value stored for a key of the dict
ValueOf(k) == heap[cache[k]].value

\* what get(k) returns when called in this state
Lookup(k) ==
    LET node == CacheGet(cache, k)
        m1 == _move_to_head([heap |-> heap, cache |-> cache, exc |-> "none"],
                            node)
    IN  IF node = None THEN NotFound
        ELSE IF m1.exc = "none" THEN m1.heap[node].value
        ELSE None

\* s without the key k
Without(s, k) == SelectSeq(s, LAMBDA x : x # k)

Range(s) == { s[i] : i \in 1..Len(s) }

TypeOK ==
    /\ capacity \in {None} \cup (1..MaxCapacity)
    /\ DOMAIN cache \subseteq Keys
    /\ exc \in {"none", "ValueError", "AttributeError", "KeyError"}

\* the step being taken is the call put(k, _) / get(k)
IsPut(k) == op'.name = "put" /\ op'.key = k
IsGet(k) == op'.name = "get" /\ op'.key = k

\* the keys the step being taken removes from the dict
Removed == DOMAIN cache \ DOMAIN cache'

(* ------------------------------- claims ------------------------------- *)

\* C1: once the cache is constructed, whatever get and put calls have run,
\* the number of entries of the dict is between 0 and the capacity.
C1_CapacityBound ==
    capacity # None => (0 <= size /\ size <= capacity)

\* a put of a new key has just run on a full cache, and the cache is full
C1_Witness ==
    /\ op.name = "put" /\ op.path = "evict"
    /\ capacity = MaxCapacity /\ size = capacity

\* C2: after every call the list, read from head to tail, is the keys of
\* the dict ordered by their most recent touch (successful get or put),
\* newest first; and a put of an absent key on a full cache removes exactly
\* the key whose most recent touch is the oldest.
C2_EvictsLeastRecentlyTouched ==
    [][ /\ capacity' # None => Items' = recency'
        /\ \A k \in Keys :
              (IsPut(k) /\ k \notin DOMAIN cache /\ size = capacity)
                  => Removed = {recency[Len(recency)]}
      ]_vars

\* a put has just evicted a key from a full cache of three entries, and the
\* list is in the order of the touches
C2_Witness ==
    /\ op.name = "put" /\ op.path = "evict" /\ capacity = 3
    /\ gone # {} /\ op.key \notin gone
    /\ Len(recency) = 3 /\ Items = recency

\* C3: between calls the dict and the list are in lockstep: the list from
\* head reaches tail, the keys of the dict are the keys of the nodes of the
\* list, every dict value is a node of the list, no node is in the list
\* twice, and len(cache) is the number of nodes of the list.
C3_Lockstep ==
    capacity # None =>
        /\ None \notin Range(ListNodes)
        /\ DOMAIN cache = Range(Items)
        /\ \A k \in DOMAIN cache : cache[k] \in Range(ListNodes)
        /\ Cardinality(Range(ListNodes)) = Len(ListNodes)
        /\ size = Len(ListNodes)

\* the dict and the list hold three entries after an eviction
C3_Witness ==
    /\ op.name = "put" /\ op.path = "evict"
    /\ size = 3 /\ Len(ListNodes) = 3 /\ gone # {}

\* C4: get(k) of a key of the dict returns the value of the most recent
\* put(k, _) and leaves k's node right after head; the size, the keys, every
\* stored value and the order of the other entries are as before.
C4_GetHit ==
    [][ \A k \in Keys :
          (IsGet(k) /\ k \in DOMAIN cache) =>
              /\ k \in DOMAIN lastPut /\ ret' = lastPut[k]
              /\ DOMAIN cache' = DOMAIN cache
              /\ heap'[head'].next = cache'[k]
              /\ Items' # <<>> /\ Items'[1] = k
              /\ size' = size
              /\ \A x \in DOMAIN cache : ValueOf(x)' = ValueOf(x)
              /\ Without(Items', k) = Without(Items, k)
      ]_vars

\* a get has just hit the key that was put with this value, in a cache of
\* three entries that holds another value too
C4_Witness ==
    /\ op.name = "get" /\ op.path = "hit" /\ size = 3
    /\ ret = lastPut[op.key] /\ Items[1] = op.key
    /\ \E x \in DOMAIN cache : ValueOf(x) # ret

\* C5: get(k) of a key that is not in the dict (never put, or evicted and
\* not put again) returns -1 and changes nothing of the cache: the dict, the
\* nodes and their links, values and order are as before.
C5_GetMiss ==
    [][ \A k \in Keys :
          (IsGet(k) /\ k \notin DOMAIN cache) =>
              /\ ret' = -1
              /\ cache' = cache /\ heap' = heap
              /\ head' = head /\ tail' = tail /\ capacity' = capacity
              /\ size' = size /\ Items' = Items
      ]_vars

\* a get has just missed an evicted key while another key, never put, is
\* absent too, in a cache of two entries
C5_Witness ==
    /\ op.name = "get" /\ op.path = "miss" /\ ret = -1
    /\ op.key \in gone /\ op.key \notin DOMAIN cache
    /\ size = 2 /\ Keys \ (gone \cup DOMAIN cache) # {}

\* C6: put(k, v) of a key of the dict, full cache or not, stores v for k and
\* moves k to the front; it evicts nothing: the keys, the size, the other
\* values and the order of the other entries are as before.
C6_PutExisting ==
    [][ \A k \in Keys :
          (IsPut(k) /\ k \in DOMAIN cache) =>
              /\ DOMAIN cache' = DOMAIN cache
              /\ Removed = {}
              /\ size' = size
              /\ ValueOf(k)' = op'.value
              /\ heap'[head'].next = cache'[k]
              /\ Items' # <<>> /\ Items'[1] = k
              /\ \A x \in DOMAIN cache \ {k} : ValueOf(x)' = ValueOf(x)
              /\ Without(Items', k) = Without(Items, k)
      ]_vars

\* a put has just updated a key of a full cache of three entries
C6_Witness ==
    /\ op.name = "put" /\ op.path = "update"
    /\ capacity = 3 /\ size = capacity
    /\ Items[1] = op.key /\ ValueOf(op.key) = op.value
    /\ \E x \in DOMAIN cache : ValueOf(x) # op.value

\* C7: put(k, v) of an absent key on a full cache removes exactly one entry,
\* the one of the node just before tail, from the list and from the dict,
\* and inserts k at the front with value v; the size is still the capacity
\* and the other entries keep their values and their order.
C7_PutEvicts ==
    [][ \A k \in Keys :
          (IsPut(k) /\ k \notin DOMAIN cache /\ size = capacity) =>
              LET victim == heap[heap[tail].prev].key
              IN  /\ victim \in DOMAIN cache
                  /\ Removed = {victim}
                  /\ DOMAIN cache' = (DOMAIN cache \ {victim}) \cup {k}
                  /\ Items' = <<k>> \o SubSeq(Items, 1, Len(Items) - 1)
                  /\ size' = capacity'
                  /\ ValueOf(k)' = op'.value
                  /\ \A x \in DOMAIN cache \ {victim} :
                        ValueOf(x)' = ValueOf(x)
      ]_vars

\* a put has just evicted from a full cache of three entries: the new key
\* is at the front with its value and the evicted key is in neither
\* structure
C7_Witness ==
    /\ op.name = "put" /\ op.path = "evict"
    /\ capacity = 3 /\ size = 3 /\ Len(Items) = 3 /\ Items[1] = op.key
    /\ ValueOf(op.key) = op.value
    /\ \E k \in gone : k \notin DOMAIN cache /\ k \notin Range(Items)

\* C8: put(k, v) of an absent key below capacity adds k with value v right
\* after head and grows the size by one; no entry is removed and the
\* entries already there keep their values and their order.
C8_PutInserts ==
    [][ \A k \in Keys :
          (IsPut(k) /\ k \notin DOMAIN cache /\ capacity # None
                /\ size < capacity) =>
              /\ DOMAIN cache' = DOMAIN cache \cup {k}
              /\ Removed = {}
              /\ size' = size + 1
              /\ heap'[head'].next = cache'[k]
              /\ Items' = <<k>> \o Items
              /\ ValueOf(k)' = op'.value
              /\ \A x \in DOMAIN cache : ValueOf(x)' = ValueOf(x)
      ]_vars

\* a put has just inserted the third key of a cache of capacity three
C8_Witness ==
    /\ op.name = "put" /\ op.path = "insert"
    /\ capacity = 3 /\ size = 3 /\ Items[1] = op.key
    /\ ValueOf(op.key) = op.value

\* C9: the size never decreases, and once it equals the capacity it equals
\* the capacity after every later call.
C9_FullStaysFull ==
    [][ capacity # None =>
            /\ size' >= size
            /\ size = capacity => size' = capacity'
      ]_vars

\* a cache of capacity two is full after a put that had to evict
C9_Witness ==
    /\ op.name = "put" /\ op.path = "evict"
    /\ capacity = 2 /\ size = 2 /\ gone # {}

\* C10: a key leaves the dict only in a put of another key, one that is not
\* in the dict, made while the size equals the capacity.
C10_OnlyEvictionRemoves ==
    [][ \A k \in Removed :
            /\ op'.name = "put" /\ op'.key # k
            /\ op'.key \notin DOMAIN cache
            /\ size = capacity
      ]_vars

\* a key has left a cache of capacity one in a put of another key
C10_Witness ==
    /\ op.name = "put" /\ op.path = "evict" /\ capacity = 1
    /\ gone # {} /\ op.key \notin gone /\ DOMAIN cache = {op.key}


\* C11: in a cache of capacity two or more, the key of the call just made (a
\* put, or a get that found its key) is not the key the next call removes;
\* and on LRUCache(2) the calls put(1,1), put(2,2), get(1), put(3,3) evict
\* key 2, after which get(2) returns -1, get(3) returns 3 and get(1)
\* returns 1.
C11_JustTouchedSurvives ==
    [][ /\ ( /\ capacity # None /\ capacity >= 2
             /\ \/ op.name = "put"
                \/ op.name = "get" /\ op.key \in DOMAIN cache )
            => op.key \notin Removed
        /\ script' = 4 => (Removed = {2} /\ DOMAIN cache' = {1, 3})
        /\ script' = 5 => ret' = -1
        /\ script' = 6 => ret' = 3
        /\ script' = 7 => ret' = 1
      ]_vars

\* the seven calls of Test 1 have run on LRUCache(2)
C11_Witness ==
    /\ script = Len(Script) /\ capacity = 2
    /\ ret = 1 /\ DOMAIN cache = {1, 3} /\ 2 \in gone

\* the last n elements of s, last one first
LastReversed(s, n) == [i \in 1..n |-> s[Len(s) + 1 - i]]

\* C12: whatever the capacity C, while puts of pairwise distinct keys follow
\* one another with no get in between, the front of the list is those keys,
\* newest first; each such put beyond the C-th removes the key put earliest
\* among those still in the cache, and after more than C of them exactly
\* the last C keys put are present.
C12_DistinctPutsKeepLastC ==
    [][ /\ capacity' # None =>
            LET n == IF Len(run') < capacity' THEN Len(run') ELSE capacity'
            IN  /\ Len(Items') >= n
                /\ SubSeq(Items', 1, n) = LastReversed(run', n)
                /\ Len(run') >= capacity' =>
                      /\ Items' = LastReversed(run', capacity')
                      /\ DOMAIN cache' = Range(LastReversed(run', capacity'))
        /\ \A k \in Keys :
              ( /\ IsPut(k) /\ capacity # None
                /\ Len(run) >= capacity /\ k \notin Range(run) )
                  => Removed = {run[Len(run) + 1 - capacity]}
      ]_vars

\* four puts of distinct keys in a row have run on a cache of capacity two
C12_Witness ==
    /\ capacity = 2 /\ Len(run) = 4 /\ op.name = "put"
    /\ Items = <<run[4], run[3]>> /\ gone = {run[1], run[2]}


\* C13: LRUCache(c) with c <= 0 raises and leaves no cache behind; with
\* c >= 1 it returns a cache of that capacity with an empty dict, size 0 and
\* a list of the two sentinels only, head.next = tail and tail.prev = head.
C13_Construction ==
    op.name = "__init__" =>
        IF op.value <= 0
        THEN /\ exc = "ValueError"
             /\ capacity = None /\ head = None /\ tail = None
             /\ cache = <<>> /\ heap = <<>>
        ELSE /\ exc = "none"
             /\ capacity = op.value
             /\ cache = <<>> /\ size = 0
             /\ head # tail /\ DOMAIN heap = {head, tail}
             /\ heap[head].next = tail /\ heap[tail].prev = head
             /\ ListNodes = <<>>

\* LRUCache(0) has just raised
C13_Witness ==
    /\ op.name = "__init__" /\ op.value = 0
    /\ exc = "ValueError" /\ capacity = None

\* C14 as stated: in a cache of capacity 1, after put(k, v) the keys for
\* which get does not return -1 are exactly k.
C14_OnlyPutKeyIsFound ==
    (capacity = 1 /\ op.name = "put") =>
        { x \in Keys : Lookup(x) # -1 } = {op.key}

\* C14, amended: a cache of capacity 1 holds at most one key; after
\* put(k, v) the dict holds k alone (a key held before it is gone), get of
\* every other key returns -1 and get(k) returns v, which is -1 when v is.
C14_SingleSlot ==
    capacity = 1 =>
        /\ size <= 1
        /\ op.name = "put" =>
              /\ DOMAIN cache = {op.key}
              /\ Items = <<op.key>>
              /\ \A x \in Keys \ {op.key} : Lookup(x) = -1
              /\ Lookup(op.key) = op.value

\* put(k, -1) has just evicted the key held by a cache of capacity 1, and
\* get(k) returns -1 for the key that is present
C14_Witness ==
    /\ capacity = 1 /\ op.name = "put" /\ op.path = "evict"
    /\ op.value = -1 /\ DOMAIN cache = {op.key} /\ Lookup(op.key) = -1
    /\ gone # {}

\* C15: every put on a constructed cache returns without raising, and right
\* after put(k, v) the key k is in the dict and get(k) returns v.
C15_PutNeverFails ==
    op.name = "put" =>
        /\ exc = "none"
        /\ op.key \in DOMAIN cache
        /\ Lookup(op.key) = op.value

\* a put has just returned normally after evicting from a full cache of
\* two entries, having had to unlink a node and delete its key
C15_Witness ==
    /\ op.name = "put" /\ op.path = "evict" /\ exc = "none"
    /\ capacity = 2 /\ size = 2 /\ Cardinality(gone) >= 2
    /\ Lookup(op.key) = op.value


\* C16: a put(k, v) that repeats the put just made leaves the size, the
\* keys, every stored value and the order as the first one left them, with k
\* at the front before and after; and a put of the value k already holds,
\* made when k is not at the front, changes the order (k comes to the front)
\* and no value.
C16_RepeatedPut ==
    [][ \A k \in Keys :
          /\ ( /\ IsPut(k)
               /\ op.name = "put" /\ op.key = k /\ op.value = op'.value )
              => /\ size' = size
                 /\ DOMAIN cache' = DOMAIN cache
                 /\ \A x \in DOMAIN cache : ValueOf(x)' = ValueOf(x)
                 /\ Items # <<>> /\ Items[1] = k
                 /\ Items' = Items
          /\ ( /\ IsPut(k) /\ k \in DOMAIN cache
               /\ ValueOf(k) = op'.value
               /\ Items # <<>> /\ Items[1] # k )
              => /\ Items' # Items
                 /\ Items' # <<>> /\ Items'[1] = k
                 /\ size' = size
                 /\ DOMAIN cache' = DOMAIN cache
                 /\ \A x \in DOMAIN cache : ValueOf(x)' = ValueOf(x)
      ]_vars

\* the same put has just run twice in a row on a cache of three entries
C16_Witness ==
    /\ again /\ op.name = "put" /\ op.path = "update"
    /\ size = 3 /\ Items[1] = op.key /\ ValueOf(op.key) = op.value

\* s, last element first
Reverse(s) == [i \in 1..Len(s) |-> s[Len(s) + 1 - i]]

\* the nodes met from tail.prev along prev up to head
ListNodesBackward ==
    IF capacity = None THEN <<>>
    ELSE Chain(heap, heap[tail].prev, head, "prev", Cardinality(DOMAIN heap))

\* node n is an allocated node whose `field` neighbour points back at it
\* through `back`
LinkedBack(n, field, back) ==
    /\ n \in DOMAIN heap
    /\ heap[n][field] \in DOMAIN heap
    /\ heap[heap[n][field]][back] = n

\* C17: in every reachable state the list is a well-formed doubly linked
\* chain: following next from head reaches tail, visiting every node of the
\* dict exactly once and no other; n.next.prev = n and n.prev.next = n for
\* the nodes of the chain; following prev from tail visits the same nodes in
\* the reverse order.
C17_WellFormedChain ==
    capacity # None =>
        /\ None \notin Range(ListNodes)
        /\ Cardinality(Range(ListNodes)) = Len(ListNodes)
        /\ Range(ListNodes) = { cache[k] : k \in DOMAIN cache }
        /\ head \notin Range(ListNodes) /\ tail \notin Range(ListNodes)
        /\ \A n \in Range(ListNodes) \cup {head} : LinkedBack(n, "next", "prev")
        /\ \A n \in Range(ListNodes) \cup {tail} : LinkedBack(n, "prev", "next")
        /\ ListNodesBackward = Reverse(ListNodes)

\* a get has just moved the last of three nodes to the front
C17_Witness ==
    /\ op.name = "get" /\ op.path = "hit" /\ Len(ListNodes) = 3
    /\ ListNodes[1] = cache[op.key]
    /\ ListNodesBackward = Reverse(ListNodes)
    /\ gone # {}

\* C18: when put calls _pop_tail the list holds a node that is not a
\* sentinel, so the node unlinked is not head; and after every call head
\* and tail are the two ends of the chain (nothing before head, nothing
\* after tail, tail reached from head), are the objects they were, and are
\* not values of the dict.
C18_SentinelsStayEnds ==
    [][ /\ \A k \in Keys :
              ( /\ IsPut(k) /\ capacity # None
                /\ k \notin DOMAIN cache /\ IsFull(cache) )
                  => /\ ListNodes # <<>>
                     /\ heap[tail].prev \in Range(ListNodes)
                     /\ heap[tail].prev \notin {head, tail}
        /\ capacity # None => (head' = head /\ tail' = tail)
        /\ capacity' # None =>
              /\ head' # tail'
              /\ {head', tail'} \subseteq DOMAIN heap'
              /\ heap'[head'].prev = None /\ heap'[tail'].next = None
              /\ None \notin Range(ListNodes')
              /\ \A k \in DOMAIN cache' : cache'[k] \notin {head', tail'}
      ]_vars

\* a put has just evicted the only node of a cache of capacity one: the node
\* it unlinked was next to both sentinels
C18_Witness ==
    /\ op.name = "put" /\ op.path = "evict" /\ capacity = 1
    /\ gone # {} /\ Len(ListNodes) = 1
    /\ heap[head].next = cache[op.key] /\ heap[tail].prev = cache[op.key]
    /\ heap[head].prev = None /\ heap[tail].next = None

\* C19: in every reachable state the node stored under key k has key k; so
\* the node before tail, the one an eviction unlinks, is the dict entry
\* that `del cache[tail_node.key]` deletes.
C19_NodeKeyIsIndexKey ==
    capacity # None =>
        /\ \A k \in DOMAIN cache : heap[cache[k]].key = k
        /\ ListNodes # <<>> =>
              LET t == heap[tail].prev
              IN  /\ t \in DOMAIN heap
                  /\ heap[t].key \in DOMAIN cache
                  /\ cache[heap[t].key] = t

\* three keys are stored, each with a value that differs from the key, after
\* an eviction
C19_Witness ==
    /\ size = 3 /\ gone # {} /\ op.name = "put" /\ op.path = "evict"
    /\ \A k \in DOMAIN cache : heap[cache[k]].key = k /\ ValueOf(k) # k

\* C20 as stated: get(k) returns -1 if and only if k is not in the cache.
C20_MinusOneIffAbsent ==
    [][ \A k \in Keys : IsGet(k) => (ret' = -1 <=> k \notin DOMAIN cache) ]_vars

\* C20, amended: get(k) returns -1 for a key that is not in the cache and
\* the stored value for a key that is; so it returns -1 if and only if k is
\* absent or the value stored for k is -1.
C20_MinusOneIffAbsentOrStored ==
    [][ \A k \in Keys :
          IsGet(k) =>
              /\ k \notin DOMAIN cache => ret' = -1
              /\ k \in DOMAIN cache => ret' = ValueOf(k)
              /\ ret' = -1 <=> (k \notin DOMAIN cache \/ ValueOf(k) = -1)
      ]_vars

\* a get has just returned -1 for a key that is in the cache
C20_Witness ==
    /\ op.name = "get" /\ op.path = "hit" /\ ret = -1
    /\ op.key \in DOMAIN cache /\ ValueOf(op.key) = -1
    /\ lastPut[op.key] = -1

====
